---- MODULE Spec2Model ----
(***************************************************************************)
(* Model of Subscription_Recovery.py: the recurrence-hike engine           *)
(* (find_subscription_leeches), the tool wrapper around it                 *)
(* (SubscriptionTools.analyze_transactions) and the temporary-file         *)
(* handling of the Streamlit script.                                       *)
(*                                                                         *)
(* Merchants are modelled as integers whose order is the lexicographic     *)
(* order of the merchant strings; dates and amounts are CSV cells that     *)
(* either parse to an integer value or do not parse at all.                *)
(***************************************************************************)
EXTENDS Integers, Sequences, FiniteSets, TLC

\* ------------------------------------------------------------------ bounds
MaxRows == 3
MaxMerchant == 2
MaxDate == 2
MaxAmount == 3
MaxRuns == 6

VARIABLES csv, pc, leeches, result, disk, created, lastRun

vars == <<csv, pc, leeches, result, disk, created, lastRun>>

engineVars == <<csv, pc, leeches, result>>

appVars == <<disk, created, lastRun>>

\* ------------------------------------------------------------- CSV cells
\* A cell of the uploaded file: text that parses to `val`, or junk text.
Cell(v) == [parses |-> TRUE, val |-> v]

Junk == [parses |-> FALSE, val |-> 0]

Columns == {"date", "merchant", "amount"}

CleanRows == [merchant : 1..MaxMerchant,
              date : {Cell(d) : d \in 1..MaxDate},
              amount : {Cell(a) : a \in 1..MaxAmount}]

RECURSIVE SeqsUpTo(_, _)
SeqsUpTo(S, n) ==
    IF n = 0 THEN {<<>>}
    ELSE LET shorter == SeqsUpTo(S, n - 1)
         IN  shorter \cup {Append(s, x) : s \in {t \in shorter : Len(t) = n - 1}, x \in S}

\* The files the uploader can hand over: any table of at most MaxRows rows,
\* optionally with one column missing from the header, or with one cell of
\* the date or amount column holding unparseable text.
Defects(rows) ==
    {[kind |-> "none", at |-> 0]}
    \cup {[kind |-> k, at |-> 0] : k \in {"no_date", "no_merchant", "no_amount"}}
    \cup {[kind |-> k, at |-> i] : k \in {"bad_date", "bad_amount"}, i \in 1..Len(rows)}

MakeFile(rows, defect) ==
    [header |-> CASE defect.kind = "no_date" -> Columns \ {"date"}
                  [] defect.kind = "no_merchant" -> Columns \ {"merchant"}
                  [] defect.kind = "no_amount" -> Columns \ {"amount"}
                  [] OTHER -> Columns,
     rows |-> [i \in 1..Len(rows) |->
                 IF defect.at = i /\ defect.kind = "bad_date"
                 THEN [rows[i] EXCEPT !.date = Junk]
                 ELSE IF defect.at = i /\ defect.kind = "bad_amount"
                 THEN [rows[i] EXCEPT !.amount = Junk]
                 ELSE rows[i]]]

Files == {MakeFile(rows, d) : <<rows, d>> \in
            {<<r, d>> \in SeqsUpTo(CleanRows, MaxRows) \X
                          [kind : {"none", "no_date", "no_merchant", "no_amount",
                                   "bad_date", "bad_amount"},
                           at : 0..MaxRows] : d \in Defects(r)}}

\* ------------------------------------------------------- pandas helpers
NaN == [isna |-> TRUE, v |-> 0]

Num(n) == [isna |-> FALSE, v |-> n]

Raised(e) == [exc |-> e, df |-> <<>>]

Returned(df) == [exc |-> "none", df |-> df]

\* pd.read_csv: every row gets its position as index; a column in which
\* some cell is not numeric is kept as text (dtype object), and so is every
\* column of a table without rows.
ReadCsv(file) ==
    [cols |-> file.header,
     amountDtype |-> IF \/ file.rows = <<>>
                        \/ \E i \in 1..Len(file.rows) : ~file.rows[i].amount.parses
                     THEN "object" ELSE "int64",
     rows |-> [i \in 1..Len(file.rows) |->
                 [idx |-> i,
                  merchant |-> file.rows[i].merchant,
                  date |-> file.rows[i].date,
                  amount |-> file.rows[i].amount.val]]]

\* pd.to_datetime(df['date']): every cell must parse, else the call raises.
DatesParse(df) == \A i \in 1..Len(df.rows) : df.rows[i].date.parses

ToDatetime(rows) ==
    [i \in 1..Len(rows) |-> [rows[i] EXCEPT !.date = rows[i].date.val]]

\* Variant: ties on the key are not kept in input order (unstable sort).
KeyLeqStrict(a, b) ==
    \/ a.merchant < b.merchant
    \/ a.merchant = b.merchant /\ a.date < b.date

\* Variant: sorted by merchant only.
KeyLeqMerchantOnly(a, b) == a.merchant <= b.merchant

\* Sort key comparison for by=['merchant', 'date'].
KeyLeq(a, b) ==
    \/ a.merchant < b.merchant
    \/ a.merchant = b.merchant /\ a.date <= b.date

\* Stable insertion: r goes after every row whose key is <= its own.
RECURSIVE InsertSorted(_, _)
InsertSorted(sorted, r) ==
    IF sorted = <<>> THEN <<r>>
    ELSE IF KeyLeq(Head(sorted), r)
         THEN <<Head(sorted)>> \o InsertSorted(Tail(sorted), r)
         ELSE <<r>> \o sorted

RECURSIVE SortValues(_)
SortValues(rows) ==
    IF rows = <<>> THEN <<>>
    ELSE InsertSorted(SortValues(SubSeq(rows, 1, Len(rows) - 1)), rows[Len(rows)])

\* Variant: keep='first', the first occurrence is not marked.
DuplicatedKeepFirst(rows, i) ==
    \E j \in 1..(i - 1) : rows[j].merchant = rows[i].merchant

\* df.duplicated('merchant', keep=False): the mask of rows whose merchant
\* occurs in some other row as well.
Duplicated(rows, i) ==
    \E j \in 1..Len(rows) : j # i /\ rows[j].merchant = rows[i].merchant

Recurring(rows) ==
    LET keep == {i \in 1..Len(rows) : Duplicated(rows, i)}
        RECURSIVE Pick(_)
        Pick(i) == IF i > Len(rows) THEN <<>>
                   ELSE IF i \in keep THEN <<rows[i]>> \o Pick(i + 1)
                   ELSE Pick(i + 1)
    IN  Pick(1)

\* groupby('merchant')['amount'].diff(): amount minus the amount of the
\* previous row of the same group in frame order; NaN for a group's first.
GroupDiff(rows, i) ==
    LET before == {j \in 1..(i - 1) : rows[j].merchant = rows[i].merchant}
    IN  IF before = {} THEN NaN
        ELSE LET p == CHOOSE j \in before : \A k \in before : k <= j
             IN  Num(rows[i].amount - rows[p].amount)

WithPriceChange(rows) ==
    [i \in 1..Len(rows) |->
        [idx |-> rows[i].idx, merchant |-> rows[i].merchant, date |-> rows[i].date,
         amount |-> rows[i].amount, price_change |-> GroupDiff(rows, i)]]

\* Variant: price_change >= 0.
IsHikeOrEqual(r) == ~r.price_change.isna /\ r.price_change.v >= 0

\* recurring['price_change'] > 0 (a comparison with NaN is False).
IsHike(r) == ~r.price_change.isna /\ r.price_change.v > 0

Hikes(rows) == SelectSeq(rows, IsHike)

\* Variant: amount.diff() over the whole sorted frame, no grouping and no
\* restriction to recurring merchants.
UngroupedDiff(rows, i) ==
    IF i = 1 THEN NaN ELSE Num(rows[i].amount - rows[i - 1].amount)

find_leeches_ungrouped(file) ==
    LET df == ReadCsv(file)
    IN  IF "date" \notin df.cols THEN Raised("KeyError")
        ELSE IF ~DatesParse(df) THEN Raised("ValueError")
        ELSE IF "merchant" \notin df.cols THEN Raised("KeyError")
        ELSE LET sorted == SortValues(ToDatetime(df.rows))
             IN  IF "amount" \notin df.cols THEN Raised("KeyError")
                 ELSE IF df.amountDtype = "object" /\ Len(sorted) > 1
                      THEN Raised("TypeError")
                 ELSE Returned(Hikes(
                        [i \in 1..Len(sorted) |->
                           [idx |-> sorted[i].idx, merchant |-> sorted[i].merchant,
                            date |-> sorted[i].date, amount |-> sorted[i].amount,
                            price_change |-> UngroupedDiff(sorted, i)]]))

\* Variant: a missing amount column is tolerated (no price change is
\* computed, nothing is flagged).
find_leeches_lenient(file) ==
    LET df == ReadCsv(file)
    IN  IF "date" \notin df.cols THEN Raised("KeyError")
        ELSE IF ~DatesParse(df) THEN Raised("ValueError")
        ELSE IF "merchant" \notin df.cols THEN Raised("KeyError")
        ELSE LET recurring == Recurring(SortValues(ToDatetime(df.rows)))
             IN  IF "amount" \notin df.cols THEN Returned(<<>>)
                 ELSE IF df.amountDtype = "object" /\ recurring # <<>>
                      THEN Raised("TypeError")
                 ELSE Returned(Hikes(WithPriceChange(recurring)))

find_subscription_leeches(file) ==
    LET df == ReadCsv(file)
    IN  IF "date" \notin df.cols THEN Raised("KeyError")
        ELSE IF ~DatesParse(df) THEN Raised("ValueError")
        ELSE IF "merchant" \notin df.cols THEN Raised("KeyError")
        ELSE LET recurring == Recurring(SortValues(ToDatetime(df.rows)))
             IN  IF "amount" \notin df.cols THEN Raised("KeyError")
                 ELSE IF df.amountDtype = "object" /\ recurring # <<>>
                      THEN Raised("TypeError")
                 ELSE Returned(Hikes(WithPriceChange(recurring)))

\* leeches.to_json(orient='records'): the index is dropped.
ToJson(rows) ==
    [i \in 1..Len(rows) |->
        [date |-> rows[i].date, merchant |-> rows[i].merchant,
         amount |-> rows[i].amount, price_change |-> rows[i].price_change.v]]

\* Variant: no check for an empty frame before serialising.
ToolReturnNoEmptyCheck(outcome) ==
    IF outcome.exc # "none"
    THEN [head |-> "Error: ", exc |-> outcome.exc, records |-> <<>>]
    ELSE [head |-> "[", exc |-> "none", records |-> ToJson(outcome.df)]

\* Variant: the except branch answers like the empty branch.
ToolReturnSwallow(outcome) ==
    IF outcome.exc # "none" \/ outcome.df = <<>>
    THEN [head |-> "No price hikes found.", exc |-> "none", records |-> <<>>]
    ELSE [head |-> "[", exc |-> "none", records |-> ToJson(outcome.df)]

\* The string analyze_transactions returns, as its leading text and payload.
ToolReturn(outcome) ==
    IF outcome.exc # "none"
    THEN [head |-> "Error: ", exc |-> outcome.exc, records |-> <<>>]
    ELSE IF outcome.df = <<>>
    THEN [head |-> "No price hikes found.", exc |-> "none", records |-> <<>>]
    ELSE [head |-> "[", exc |-> "none", records |-> ToJson(outcome.df)]

NoResult == [head |-> "", exc |-> "none", records |-> <<>>]

NoRun == [file |-> FALSE, key |-> FALSE, pressed |-> FALSE, kickoff |-> "none"]

\* ---------------------------------------------------------------- engine
InitApp == disk = {} /\ created = 0 /\ lastRun = NoRun

Init ==
    /\ csv \in Files
    /\ pc = "start"
    /\ leeches = Returned(<<>>)
    /\ result = NoResult
    /\ InitApp

analyze_transactions ==
    /\ pc = "start"
    /\ leeches' = find_subscription_leeches(csv)
    /\ result' = ToolReturn(leeches')
    /\ pc' = "done"
    /\ UNCHANGED <<csv, disk, created, lastRun>>

Next == analyze_transactions

Spec == Init /\ [][Next]_vars

\* ------------------------------------------------------- Streamlit script
\* One script run from top to bottom.  tempfile.NamedTemporaryFile hands out
\* a fresh name each time; `created` numbers the files made so far.
RunInfo(f, k, b, ko) == [file |-> f, key |-> k, pressed |-> b, kickoff |-> ko]

\* No uploaded file or no API key: the else branch only shows the tip.
ScriptRunNoInput ==
    /\ \E f \in BOOLEAN, k \in BOOLEAN :
          /\ ~(f /\ k)
          /\ lastRun' = RunInfo(f, k, FALSE, "none")
    /\ UNCHANGED <<disk, created, csv, pc, leeches, result>>

\* File and key present, button not pressed: the upload is written to a new
\* temporary file (delete=False) and the script ends.
ScriptRunIdle ==
    /\ created < MaxRuns
    /\ created' = created + 1
    /\ disk' = disk \cup {created'}
    /\ lastRun' = RunInfo(TRUE, TRUE, FALSE, "none")
    /\ UNCHANGED engineVars

\* File and key present, button pressed: temp file written, crew kickoff
\* returns or raises, and the finally block removes tmp_path if it exists.
ScriptRunPressed ==
    /\ created < MaxRuns
    /\ created' = created + 1
    /\ \E ko \in {"returned", "raised"} :
          lastRun' = RunInfo(TRUE, TRUE, TRUE, ko)
    /\ disk' = (disk \cup {created'}) \ {created'}
    /\ UNCHANGED engineVars

InitIdleEngine ==
    /\ csv = MakeFile(<<>>, [kind |-> "none", at |-> 0])
    /\ pc = "start"
    /\ leeches = Returned(<<>>)
    /\ result = NoResult

AppInit == InitIdleEngine /\ InitApp

AppNext == ScriptRunNoInput \/ ScriptRunIdle \/ ScriptRunPressed

AppSpec == AppInit /\ [][AppNext]_vars

\* ================================================================ claims
Done == pc = "done"

N == Len(csv.rows)

HeaderComplete == csv.header = Columns

WellFormed ==
    /\ HeaderComplete
    /\ \A i \in 1..N : csv.rows[i].date.parses /\ csv.rows[i].amount.parses

Merchant(i) == csv.rows[i].merchant

Date(i) == csv.rows[i].date.val

Amount(i) == csv.rows[i].amount.val

RecordsOf(m) == {i \in 1..N : Merchant(i) = m}

\* j comes before i in i's merchant partition ordered by (date, input position).
Precedes(j, i) ==
    /\ Merchant(j) = Merchant(i)
    /\ \/ Date(j) < Date(i)
       \/ Date(j) = Date(i) /\ j < i

HasPred(i) == \E j \in 1..N : Precedes(j, i)

\* The immediate predecessor: the latest record that precedes i.
Pred(i) ==
    CHOOSE j \in 1..N :
        /\ Precedes(j, i)
        /\ \A k \in 1..N : Precedes(k, i) /\ k # j => Precedes(k, j)

ExpectedHikes ==
    {i \in 1..N : /\ Cardinality(RecordsOf(Merchant(i))) > 1
                  /\ HasPred(i)
                  /\ Amount(i) - Amount(Pred(i)) > 0}

Events == leeches.df

EventIdx == {Events[k].idx : k \in 1..Len(Events)}

\* C1: on a well-formed table the engine emits exactly one event for each
\* record of a recurring merchant whose amount exceeds that of its immediate
\* predecessor in the merchant's partition, and no event for any other record.
C1_ExactlyTheHikes ==
    (Done /\ WellFormed) =>
        /\ leeches.exc = "none"
        /\ \A a, b \in 1..Len(Events) : Events[a].idx = Events[b].idx => a = b
        /\ EventIdx = ExpectedHikes

\* Three successively increasing charges of one merchant give two events.
C1_Witness ==
    /\ Done /\ WellFormed /\ N = 3
    /\ Cardinality(RecordsOf(Merchant(1))) = 3
    /\ Len(Events) = 2
    /\ \E i \in 1..N : ~HasPred(i) /\ i \notin EventIdx

\* C2: for every event, the amount the price change was taken against
\* (amount - price_change) is the amount of the immediate predecessor of the
\* triggering record in its merchant's partition ordered by (date, input
\* position); the predecessor exists and is of the same merchant.
C2_PreviousIsImmediatePredecessor ==
    (Done /\ WellFormed) =>
        \A k \in 1..Len(Events) :
            /\ Events[k].idx \in 1..N
            /\ HasPred(Events[k].idx)
            /\ Merchant(Pred(Events[k].idx)) = Events[k].merchant
            /\ Events[k].amount - Events[k].price_change.v = Amount(Pred(Events[k].idx))

\* An event whose predecessor has the same date (the tie is broken by input
\* position) and is not the merchant's earliest record.
C2_Witness ==
    /\ Done /\ WellFormed
    /\ \E k \in 1..Len(Events) :
          LET i == Events[k].idx
          IN  /\ HasPred(i)
              /\ Date(Pred(i)) = Date(i)
              /\ HasPred(Pred(i))
              /\ Amount(Pred(Pred(i))) # Amount(Pred(i))

\* C3: every emitted event carries a price change that is a number, is
\* strictly positive, and equals the triggering record's amount minus the
\* amount of the record before it.
C3_DeltaPositive ==
    Done =>
        \A k \in 1..Len(Events) :
            /\ ~Events[k].price_change.isna
            /\ Events[k].price_change.v > 0
            /\ Events[k].amount = Amount(Events[k].idx)
            /\ HasPred(Events[k].idx)
            /\ Events[k].price_change.v
                 = Amount(Events[k].idx) - Amount(Pred(Events[k].idx))

\* An event is emitted while a same-merchant record with an unchanged amount
\* and one with a lower amount are dropped.
C3_Witness ==
    /\ Done /\ WellFormed /\ Len(Events) = 1
    /\ \E i \in 1..N : /\ HasPred(i)
                       /\ Amount(i) = Amount(Pred(i))
                       /\ Merchant(i) = Events[1].merchant

\* C4: a merchant that appears in exactly one record contributes no event,
\* neither to the engine's frame nor to the serialised records.
C4_SingleRecordMerchantSilent ==
    Done =>
        \A m \in 1..MaxMerchant :
            Cardinality(RecordsOf(m)) = 1 =>
                /\ \A k \in 1..Len(Events) : Events[k].merchant # m
                /\ \A k \in 1..Len(result.records) : result.records[k].merchant # m

\* A single-record merchant sorted right after a recurring merchant's cheaper
\* record, next to an emitted event of the recurring merchant.
C4_Witness ==
    /\ Done /\ WellFormed /\ Len(Events) = 1
    /\ \E i \in 1..N :
          /\ Cardinality(RecordsOf(Merchant(i))) = 1
          /\ Merchant(i) > Events[1].merchant
          /\ Amount(i) > Events[1].amount

C7_BadCellAborts ==
    (Done /\ HeaderComplete /\ ~WellFormed) =>
        /\ leeches.exc # "none"
        /\ Events = <<>>
        /\ result.head = "Error: "

\* C8: a table with the required columns and zero rows succeeds with an
\* empty frame and the "no findings" answer.
C8_EmptyInputNoFindings ==
    (Done /\ HeaderComplete /\ N = 0) =>
        /\ leeches.exc = "none"
        /\ Events = <<>>
        /\ result.head = "No price hikes found."
        /\ result.records = <<>>

C8_Witness ==
    /\ Done /\ HeaderComplete /\ N = 0
    /\ result.head = "No price hikes found."

\* C9: the tool always returns one of three distinguishable answers: the
\* serialised records exactly when the engine returned a non-empty frame,
\* "no findings" exactly when it returned an empty frame, and an error
\* exactly when it raised.
C9_ThreeOutcomes ==
    Done =>
        /\ result.head \in {"[", "No price hikes found.", "Error: "}
        /\ (result.head = "Error: ") <=> (leeches.exc # "none")
        /\ (result.head = "No price hikes found.")
              <=> (leeches.exc = "none" /\ Events = <<>>)
        /\ (result.head = "[")
              <=> (leeches.exc = "none" /\ Events # <<>>)
        /\ (result.head = "[") => Len(result.records) = Len(Events)
        /\ (result.head = "Error: ") => result.exc = leeches.exc

\* The engine raised inside the try block and the tool answered with an error.
C9_Witness ==
    /\ Done
    /\ leeches.exc = "TypeError"
    /\ result.head = "Error: "
    /\ result.exc = "TypeError"

\* C10: after every script run no temporary file is left on disk.
C10_NoTempFileLeft == disk = {}

====
